---- MODULE Spec2Model ----
(***************************************************************************)
(* A model of dent: the summarizer (src/src/summary.rs), the special       *)
(* functions (src/src/num.rs), the t-test (src/src/t_test.rs), the         *)
(* linear regression (src/src/lr.rs) and the input reader and t-test       *)
(* report of the command line (src/src/bin.rs).  There is one              *)
(* specification per part: Spec, NumSpec, LrSpec and ReadSpec.             *)
(*                                                                         *)
(* f64 is modelled by a scaled-down binary floating-point format with the  *)
(* same structure as IEEE 754 binary64: MantBits bits of precision,        *)
(* round-to-nearest-even after every operation, gradual underflow down to  *)
(* one unit (2^-FracBits), overflow to +/-infinity above MaxFinite, and a  *)
(* NaN.  A finite value is held as an integer number of units.  Signed     *)
(* zero is not modelled (no operation of the summarizer distinguishes      *)
(* -0.0 from 0.0).                                                         *)
(***************************************************************************)
EXTENDS Integers, Sequences, FiniteSets

\* ---------------------------------------------------------------- bounds
\* Precision of the float format (53 in f64).
MantBits == 4
\* The smallest positive float is 2^-FracBits (2^-1074 in f64).
FracBits == 3
\* The largest float is (2^MantBits - 1) * 2^ExpMax units.
ExpMax == 3
\* Longest caller-supplied sample drawn by Init.
MaxLen == 4

\* ------------------------------------------------------- the float format
Scale == 2^FracBits
MaxFinite == (2^MantBits - 1) * 2^ExpMax
PosInf == MaxFinite + 1
NegInf == 0 - PosInf
NaN == MaxFinite + 2

Abs(i) == IF i < 0 THEN 0 - i ELSE i
Sgn(i) == IF i < 0 THEN 0 - 1 ELSE 1

\* The non-negative finite floats, in units.
FinitePos == {m * 2^e : m \in 0..(2^MantBits - 1), e \in 0..ExpMax}
Finite == FinitePos \cup {0 - f : f \in FinitePos}
Float == Finite \cup {PosInf, NegInf, NaN}

\* f64::is_finite
is_finite(x) == x # NaN /\ x # PosInf /\ x # NegInf

\* The float of a small integer / a dyadic fraction num/2^k (exact).
F(n) == n * Scale
Half == Scale \div 2
Quarter == Scale \div 4
ThreeQuarters == 3 * Quarter
OneAndHalf == Scale + Half

RECURSIVE ExpOf(_, _)
\* The exponent e >= 0 with t < 2^(MantBits+e), least such.
ExpOf(t, e) == IF t < 2^(MantBits + e) THEN e ELSE ExpOf(t, e + 1)

\* An infinity when the rounded magnitude v exceeds the largest float.
Pack(sign, v) == IF v > MaxFinite THEN sign * PosInf ELSE sign * v

\* m + r/q quanta of 2^e units, rounded to nearest, ties to even.
RoundM(sign, m, r, q, e) ==
    Pack(sign, (IF 2 * r > q THEN m + 1
                ELSE IF 2 * r < q THEN m
                ELSE m + (m % 2)) * 2^e)

RoundE(sign, a, q, e) == RoundM(sign, a \div q, a % q, q, e)

\* Round the rational num/den (in units, den > 0) to the nearest float,
\* ties to even; overflow gives an infinity.
RoundQ(num, den) ==
    RoundE(Sgn(num), Abs(num), den * 2^ExpOf(Abs(num) \div den, 0),
           ExpOf(Abs(num) \div den, 0))

FNeg(x) == IF x = NaN THEN NaN ELSE 0 - x

FAdd(x, y) ==
    IF x = NaN \/ y = NaN THEN NaN
    ELSE IF ~is_finite(x) /\ ~is_finite(y) THEN (IF x = y THEN x ELSE NaN)
    ELSE IF ~is_finite(x) THEN x
    ELSE IF ~is_finite(y) THEN y
    ELSE RoundQ(x + y, 1)

FSub(x, y) == FAdd(x, FNeg(y))

FMul(x, y) ==
    IF x = NaN \/ y = NaN THEN NaN
    ELSE IF ~is_finite(x) \/ ~is_finite(y)
         THEN (IF x = 0 \/ y = 0 THEN NaN ELSE Sgn(x) * Sgn(y) * PosInf)
    ELSE RoundQ(x * y, Scale)

FDiv(x, y) ==
    IF x = NaN \/ y = NaN THEN NaN
    ELSE IF ~is_finite(x) THEN (IF ~is_finite(y) THEN NaN ELSE Sgn(x) * Sgn(y) * PosInf)
    ELSE IF ~is_finite(y) THEN 0
    ELSE IF y = 0 THEN (IF x = 0 THEN NaN ELSE Sgn(x) * PosInf)
    ELSE RoundQ(Sgn(y) * x * Scale, Abs(y))

\* The largest float whose square is at most t, and the float after f.
SqrtFloor(t) == CHOOSE f \in FinitePos :
                    f * f <= t /\ \A g \in FinitePos : g * g <= t => g <= f
Succ(f) == CHOOSE g \in FinitePos : g > f /\ \A h \in FinitePos : h > f => g <= h

\* sqrt(t) lies in [lo, hi): the nearer of the two.
SqrtPick(t, lo, hi) ==
    IF lo * lo = t THEN lo
    ELSE IF (lo + hi) * (lo + hi) < 4 * t THEN hi ELSE lo

SqrtNear(t, lo) == SqrtPick(t, lo, Succ(lo))

\* f64::sqrt, correctly rounded.
FSqrt(x) ==
    IF x = NaN \/ x < 0 THEN NaN
    ELSE IF x = PosInf THEN PosInf
    ELSE SqrtNear(x * Scale, SqrtFloor(x * Scale))

\* IEEE comparisons: every comparison with a NaN is false.
FLe(x, y) == x # NaN /\ y # NaN /\ x <= y
FLt(x, y) == x # NaN /\ y # NaN /\ x < y
FEq(x, y) == x # NaN /\ y # NaN /\ x = y

\* f64::floor and f64::fract.
FFloor(x) == IF is_finite(x) THEN (x - (x % Scale)) ELSE x
FFract(x) ==
    IF ~is_finite(x) THEN NaN
    ELSE IF x >= 0 THEN x % Scale ELSE 0 - ((0 - x) % Scale)

\* `x as usize`: truncation, saturating at 0 for a NaN or a negative value.
AsUsize(x) == IF x = NaN \/ x < 0 THEN 0 ELSE x \div Scale

\* `n as f64` for a small length n.
AsF64(n) == RoundQ(n * Scale, 1)

\* ------------------------------------------------------------- outcomes
\* Result<f64, Error>, or a panic.
Ok(v) == [kind |-> "ok", val |-> v, err |-> "none"]
Err(e) == [kind |-> "err", val |-> 0, err |-> e]
Panic == [kind |-> "panic", val |-> 0, err |-> "none"]
NoOut == [kind |-> "none", val |-> 0, err |-> "none"]

\* ----------------------------------------------------------- Summarizer
RECURSIVE Insert(_, _)
Insert(s, x) ==
    IF s = <<>> THEN <<x>>
    ELSE IF x < Head(s) THEN <<x>> \o s
    ELSE <<Head(s)>> \o Insert(Tail(s), x)

\* A faulty variant: the copy is left in the caller's order.
SortAsGiven(s) == s
RECURSIVE Sort(_)
\* data.sort_by(partial_cmp) on finite floats: the ascending, stable sort.
Sort(s) == IF s = <<>> THEN <<>> ELSE Insert(Sort(SubSeq(s, 1, Len(s) - 1)), s[Len(s)])

\* Summarizer::new: the constructor's result kind and the data it owns.
NewResult(in) ==
    IF Len(in) = 0 THEN "EmptySample"
    ELSE IF \E k \in 1..Len(in) : ~is_finite(in[k]) THEN "BadSample"
    ELSE "Ok"
\* A faulty variant: the copy is kept in input order.
NewDataUnsorted(in) == IF NewResult(in) = "Ok" THEN in ELSE <<>>
NewData(in) == IF NewResult(in) = "Ok" THEN Sort(in) ELSE <<>>

size(d) == AsF64(Len(d))
min(d) == Ok(d[1])
max(d) == Ok(d[Len(d)])

\* A faulty variant: no `j == len` test before data[j] is read.
InterpolateUnguarded(d, frac, i) ==
    IF i + 1 >= Len(d) THEN Panic
    ELSE Ok(FAdd(d[i + 1], FMul(frac, FSub(d[i + 2], d[i + 1]))))

\* The interpolation at 0-based index i with fraction frac (j = i + 1).
Interpolate(d, frac, i) ==
    IF i + 1 = Len(d) THEN Ok(d[i + 1])
    ELSE IF i + 1 > Len(d) THEN Panic
    ELSE Ok(FAdd(d[i + 1], FMul(frac, FSub(d[i + 2], d[i + 1]))))

\* A faulty variant: the value at floor(rank), without interpolation.
AtRankFloorValue(d, rank) == Ok(d[AsUsize(FFloor(rank)) + 1])
\* `frac`, `i` and the interpolation for the rank (n - 1) * p.
AtRank(d, rank) == Interpolate(d, FFract(rank), AsUsize(FFloor(rank)))

percentile(d, p) ==
    IF ~is_finite(p) THEN Err("Undefined")
    ELSE IF p < 0 \/ Scale < p THEN Err("Undefined")
    ELSE AtRank(d, FMul(FSub(size(d), F(1)), p))

\* .unwrap_or_else(|_| unreachable!())
Unwrap(r) == IF r.kind = "ok" THEN r ELSE Panic

\* A float operation on two unwrapped results; a panic propagates.
Sub2(a, b) == IF a.kind = "ok" /\ b.kind = "ok" THEN Ok(FSub(a.val, b.val)) ELSE Panic
Add2(a, b) == IF a.kind = "ok" /\ b.kind = "ok" THEN Ok(FAdd(a.val, b.val)) ELSE Panic
Mul2(x, b) == IF b.kind = "ok" THEN Ok(FMul(x, b.val)) ELSE Panic

lower_quartile(d) == Unwrap(percentile(d, Quarter))
upper_quartile(d) == Unwrap(percentile(d, ThreeQuarters))
iqr(d) == Sub2(upper_quartile(d), lower_quartile(d))
range(d) == Sub2(max(d), min(d))

SetMin(S) == CHOOSE k \in S : \A l \in S : k <= l
SetMax(S) == CHOOSE k \in S : \A l \in S : l <= k

\* .find(): the first position the scan accepts, or unreachable!().
FindFirst(d, hits) == IF hits = {} THEN Panic ELSE Ok(d[SetMin(hits)])
FindLast(d, hits) == IF hits = {} THEN Panic ELSE Ok(d[SetMax(hits)])

ScanUp(d, b) ==
    IF b.kind # "ok" THEN Panic
    ELSE FindFirst(d, {k \in 1..Len(d) : FLe(b.val, d[k])})
ScanDown(d, b) ==
    IF b.kind # "ok" THEN Panic
    ELSE FindLast(d, {k \in 1..Len(d) : FLe(d[k], b.val)})

min_adjacent(d) == ScanUp(d, Sub2(lower_quartile(d), Mul2(OneAndHalf, iqr(d))))
max_adjacent(d) == ScanDown(d, Add2(upper_quartile(d), Mul2(OneAndHalf, iqr(d))))

RECURSIVE FSum(_)
\* iter().sum(): a left fold of + starting from 0.0.
FSum(s) == IF s = <<>> THEN 0 ELSE FAdd(FSum(SubSeq(s, 1, Len(s) - 1)), s[Len(s)])

mean(d) == Ok(FDiv(FSum(d), size(d)))

median(d) ==
    IF Len(d) % 2 = 0
    THEN Ok(FDiv(FAdd(d[Len(d) \div 2], d[(Len(d) \div 2) + 1]), F(2)))
    ELSE Ok(d[((Len(d) - 1) \div 2) + 1])

\* (x - m).powi(2)
Square(x) == FMul(x, x)
SqDiffs(d, m) == [k \in 1..Len(d) |-> Square(FSub(d[k], m))]

\* A faulty variant: the biased estimate, 1/n in place of 1/(n-1).
unbiased_variance_biased(d) ==
    Ok(FMul(FDiv(F(1), size(d)), FSum(SqDiffs(d, mean(d).val))))

\* A faulty variant: a one-element sample is trapped and reported as 0.
unbiased_variance_trapped(d) ==
    IF Len(d) = 1 THEN Ok(0)
    ELSE Ok(FMul(FDiv(F(1), FSub(size(d), F(1))), FSum(SqDiffs(d, mean(d).val))))

unbiased_variance(d) ==
    Ok(FMul(FDiv(F(1), FSub(size(d), F(1))), FSum(SqDiffs(d, mean(d).val))))

standard_deviation(d) == Ok(FSqrt(unbiased_variance(d).val))
standard_error(d) == Ok(FDiv(standard_deviation(d).val, FSqrt(size(d))))

\* -------------------------------------------------------------- Summary
\* The queries Summary::new evaluates, in the order of the struct literal.
SummaryFields(d) ==
    [iqr |-> iqr(d), lower_quartile |-> lower_quartile(d), min |-> min(d),
     min_adjacent |-> min_adjacent(d), max |-> max(d),
     max_adjacent |-> max_adjacent(d), mean |-> mean(d), median |-> median(d),
     range |-> range(d), upper_quartile |-> upper_quartile(d),
     unbiased_variance |-> unbiased_variance(d),
     standard_deviation |-> standard_deviation(d),
     standard_error |-> standard_error(d)]

FieldNames ==
    {"iqr", "lower_quartile", "min", "min_adjacent", "max", "max_adjacent",
     "mean", "median", "range", "upper_quartile", "unbiased_variance",
     "standard_deviation", "standard_error"}

NoSummary == [f \in FieldNames \cup {"len"} |-> 0]

AllOk(q) == \A f \in FieldNames : q[f].kind = "ok"

\* Summary::new: "EmptySample"/"BadSample" from Summarizer::new (the `?`),
\* "panic" when a query reaches an unreachable!(), otherwise "Ok".
SummaryResult(in) ==
    IF NewResult(in) # "Ok" THEN NewResult(in)
    ELSE IF AllOk(SummaryFields(Sort(in))) THEN "Ok" ELSE "panic"

Snapshot(n, q) ==
    IF AllOk(q) THEN [f \in FieldNames \cup {"len"} |-> IF f = "len" THEN n ELSE q[f].val]
    ELSE NoSummary

SummaryValue(in) ==
    IF NewResult(in) # "Ok" THEN NoSummary
    ELSE Snapshot(Len(in), SummaryFields(Sort(in)))

\* ------------------------------------------ special functions (num.rs)
\* f64 +, -, *, / on operands evaluated once, as the machine evaluates them.
Add(x, y) == CHOOSE r \in {FAdd(v, w) : v \in {x}, w \in {y}} : TRUE
Sub(x, y) == CHOOSE r \in {FSub(v, w) : v \in {x}, w \in {y}} : TRUE
Mul(x, y) == CHOOSE r \in {FMul(v, w) : v \in {x}, w \in {y}} : TRUE
Div(x, y) == CHOOSE r \in {FDiv(v, w) : v \in {x}, w \in {y}} : TRUE
Sq(x) == CHOOSE r \in {FMul(v, v) : v \in {x}} : TRUE
\* The tiny floor of Lentz's algorithm and its convergence tolerance, scaled
\* with the float format: the least positive float (1e-30 in f64), and twice
\* the spacing of the floats at 1.0 (1e-15 is between four and five times
\* that spacing in f64, so that a c d next to 1.0 meets the tolerance as well
\* as 1.0 itself).
INC_BETA_CF_APPX_ZERO == 1
INC_BETA_CONVERGENCE_LIMIT == 2
\* The end of the loop's range `1..INC_BETA_MAX_ITER`.
INC_BETA_MAX_ITER == 1000

\* f64::abs
FAbs(x) == IF x = NaN THEN NaN ELSE Abs(x)

\* f64::powf for a base in [0, 1] or NaN.  The cases IEEE 754 fixes are
\* computed; in every other case the result is u, the value the math library
\* returns, which is an input of the model.
powf(x, y, u) ==
    IF y = 0 \/ x = F(1) THEN F(1)
    ELSE IF x = NaN \/ y = NaN THEN NaN
    ELSE IF y = F(1) THEN x
    ELSE IF x = 0 THEN (IF y > 0 THEN 0 ELSE PosInf)
    ELSE u

\* beta: exp(lgamma(a) + lgamma(b) - lgamma(a + b)).  lgamma of a NaN is NaN
\* and of an infinity is +inf, so a non-finite argument gives NaN;
\* lgamma(1) = lgamma(2) = 0 gives beta(1, 1) = exp(0) = 1; any other
\* result is u, the value the math library returns.
beta(a, b, u) ==
    IF ~is_finite(a) \/ ~is_finite(b) THEN NaN
    ELSE IF a = F(1) /\ b = F(1) THEN F(1)
    ELSE u

\* inc_beta's `coeff`, with lm the math library's results.
coeff(x, a, b, lm) ==
    Div(Mul(powf(x, a, lm.pow), powf(Sub(F(1), x), b, lm.pow)),
         Mul(a, beta(a, b, lm.beta)))

\* inc_beta's `bound`.
bound(a, b) == Div(Add(a, F(1)), Add(Add(a, b), F(2)))

cf_d_even(m, x, a, b) ==
    Div(Mul(Mul(m, Sub(b, m)), x),
         Mul(Sub(Add(a, Mul(F(2), m)), F(1)), Add(a, Mul(F(2), m))))

cf_d_odd(m, x, a, b) ==
    Div(FNeg(Mul(Mul(Add(a, m), Add(Add(a, b), m)), x)),
         Mul(Add(a, Mul(F(2), m)), Add(Add(a, Mul(F(2), m)), F(1))))

cf_d(i, x, a, b) ==
    IF i % 2 = 0 THEN cf_d_even(AsF64(i \div 2), x, a, b)
    ELSE cf_d_odd(AsF64((i - 1) \div 2), x, a, b)

\* A faulty variant: iteration i takes the term of its own index, d_i.
cf_num_own_index(i, x, a, b) == IF i = 1 THEN F(1) ELSE cf_d(i, x, a, b)
\* The numerator inc_beta_cf_step uses in iteration i.
cf_num(i, x, a, b) == IF i = 1 THEN F(1) ELSE cf_d(i - 1, x, a, b)

\* The value v, evaluated once.
Once(v) == CHOOSE r \in {v} : TRUE

\* `if v.abs() < INC_BETA_CF_APPX_ZERO { v = INC_BETA_CF_APPX_ZERO; }`
FlooredValue(v) ==
    IF FLt(FAbs(v), INC_BETA_CF_APPX_ZERO) THEN INC_BETA_CF_APPX_ZERO ELSE v
Floored(e) == CHOOSE r \in {FlooredValue(v) : v \in {e}} : TRUE

StepD(n, d0) == Div(F(1), Floored(Add(F(1), Mul(n, d0))))
StepC(n, c0) == Floored(Add(F(1), Div(n, c0)))
StepValues(f0, c, d, del) == [f |-> Mul(f0, del), c |-> c, d |-> d, del |-> del]
StepOut(f0, c, d) == StepValues(f0, c, d, Mul(c, d))
StepWith(n, f0, c0, d0) ==
    CHOOSE r \in {StepOut(f0, c, d) : c \in {StepC(n, c0)}, d \in {StepD(n, d0)}} : TRUE

\* inc_beta_cf_step: the tuple (f, c, d, del).
inc_beta_cf_step(x, a, b, i, f0, c0, d0) ==
    StepWith(Once(cf_num(i, x, a, b)), f0, c0, d0)

\* `(del - 1.0).abs() < INC_BETA_CONVERGENCE_LIMIT`
Converged(del) == FLt(FAbs(Sub(del, F(1))), INC_BETA_CONVERGENCE_LIMIT)

\* ---------------------------------------------------- t-test (t_test.rs)
PooledVariance(var1, n1, var2, n2) == Add(Div(var1, n1), Div(var2, n2))

\* A faulty variant: the second term divides by the first sample's n1 - 1.
welch_satterthwaite_df_df1_twice(var1, n1, var2, n2) ==
    Div(Sq(PooledVariance(var1, n1, var2, n2)),
        Add(Div(Sq(var1), Mul(Sq(n1), Sub(n1, F(1)))),
            Div(Sq(var2), Mul(Sq(n2), Sub(n1, F(1))))))

welch_satterthwaite_df(var1, n1, var2, n2) ==
    Div(Sq(PooledVariance(var1, n1, var2, n2)),
         Add(Div(Sq(var1), Mul(Sq(n1), Sub(n1, F(1)))),
              Div(Sq(var2), Mul(Sq(n2), Sub(n2, F(1))))))

\* welch_t_statistic: the pair (t, df) of two Summaries.
welch_t_statistic(s1, s2) ==
    [t |-> Div(Sub(s1.mean, s2.mean),
                FSqrt(PooledVariance(s1.unbiased_variance, AsF64(s1.len),
                                     s2.unbiased_variance, AsF64(s2.len)))),
     df |-> welch_satterthwaite_df(s1.unbiased_variance, AsF64(s1.len),
                                   s2.unbiased_variance, AsF64(s2.len))]

\* The arguments t_atv(t, df) hands to inc_beta.
t_atv_args(t, df) ==
    [x |-> Div(df, Add(df, Sq(t))), a |-> Mul(Half, df), b |-> Half]

\* ------------------------------------------------------------ the inputs
\* Sample values a caller may pass: ordinary, extreme and non-finite ones.
InputVals == {NaN, PosInf, NegInf, 0 - MaxFinite, 0, F(1), F(3), MaxFinite}

\* The sample of the known-answer scenario, [1, 2, 3, 4, 5].
KnownSample == <<F(1), F(2), F(3), F(4), F(5)>>

Samples == UNION {[1..n -> InputVals] : n \in 0..MaxLen} \cup {KnownSample}

\* Arguments passed to percentile: every float in [0, 1] and some outside.
PArgs == (0..Scale) \cup {NaN, PosInf, NegInf, 0 - 1, 0 - Scale, Scale + 1, F(2)}

\* Depth of inc_beta's call stack at which the thread's stack is exhausted.
StackLimit == 4

\* Arguments a caller may pass to inc_beta.
XArgs == {NaN, PosInf, NegInf, 0 - 1, Scale + 1, 0, Quarter, Half, ThreeQuarters, F(1)}
ABArgs == {NaN, PosInf, NegInf, 0 - F(3), 0, Half, F(1), F(2)}

\* Arguments a caller may pass to t_test_2_sided.
TArgs == {NaN, PosInf, 0 - F(1), 0, F(1), F(2)}
DfArgs == {NaN, PosInf, 0 - F(2), 0 - F(1), 0, F(1), F(2), F(4)}

\* Samples whose Summaries a caller may pass to welch_t_test.
TSamples ==
    {<<F(1)>>, <<F(1), F(1)>>, <<0, F(1)>>, <<F(1), F(3)>>, <<0, F(1), F(2)>>,
     KnownSample}

\* The Summaries Summary::new returns for them.
TSummaries == {SummaryValue(in) : in \in {sample \in TSamples : SummaryResult(sample) = "Ok"}}

\* Results of powf and exp the math library may return where IEEE 754 fixes none.
LibmVals == {0, Half, PosInf}

\* The Error variants (error.rs).
ErrorKinds == {"BadSample", "Diverged", "EmptySample", "Undefined"}

\* ------------------------------------------------------------- the state
VARIABLES
    input,      \* the caller's slice
    obj,        \* what the caller constructed: "none", "summarizer", "summary"
    res,        \* the constructor's result: "Ok", an Error kind, or "panic"
    data,       \* Summarizer.data
    summary,    \* the Summary's fields
    call,       \* the query that is returning, or "none"
    arg,        \* its argument (percentile's p)
    out         \* what it returns

VARIABLES
    caller,     \* the pending call into t_test.rs / num.rs and its arguments
    pc,         \* where that call is: "idle", "inc_beta", "cf", "ret", "done", "printed"
    frames,     \* inc_beta's call stack: the (x, a, b) of each activation
    loop,       \* inc_beta_cf's i, f, c, d and the cf_num of its last step
    ret,        \* the Result<f64, ()> being returned up the stack
    cause,      \* why ret is an Err: "domain" or "diverged" (the code keeps no such record)
    libm,       \* what the math library returns, once it has been asked
    from_unit,  \* the Error that `?` makes of inc_beta's `()` in t_atv
    result,     \* what the caller received
    prev        \* the outcome of the first call of a pair (swapped or negated arguments)

VARIABLES
    pairs,      \* the (x, y) slice passed to LinearRegression::new
    lr,         \* what LinearRegression::new returned: an Error or the four fields
    lines,      \* the lines of the reader handed to read_data
    lax_parsing,\* read_data's second argument
    reader,     \* read_data's position in the lines, its `data` and its outcome
    report      \* the values print_t_test has printed

sumvars == <<input, obj, res, data, summary, call, arg, out>>
numvars == <<caller, pc, frames, loop, ret, cause, libm, from_unit, result, prev>>
appvars == <<pairs, lr, lines, lax_parsing, reader, report>>
vars == <<input, obj, res, data, summary, call, arg, out,
          caller, pc, frames, loop, ret, cause, libm, from_unit, result, prev,
          pairs, lr, lines, lax_parsing, reader, report>>

NoCaller ==
    [fn |-> "none", x |-> 0, a |-> 0, b |-> 0, t |-> 0, df |-> 0,
     s1 |-> NoSummary, s2 |-> NoSummary]
NoLoop == [i |-> 0, f |-> 0, c |-> 0, d |-> 0, num |-> 0]
NoLibm == [pow |-> NaN, beta |-> NaN, asked |-> FALSE]
NoResult == [kind |-> "none", val |-> 0, t |-> 0, df |-> 0, err |-> "none"]

\* No call into t_test.rs or num.rs is pending or has been made.
NumIdle ==
    /\ caller = NoCaller
    /\ pc = "idle"
    /\ frames = <<>>
    /\ loop = NoLoop
    /\ ret = NoOut
    /\ cause = "none"
    /\ libm = NoLibm
    /\ result = NoResult
    /\ prev = NoResult

NoLr == [kind |-> "none", intercept |-> 0, r |-> 0, slope |-> 0, standard_error |-> 0]
NoReader == [pos |-> 0, data |-> <<>>, status |-> "none"]
NoReport ==
    [printed |-> FALSE, m1 |-> 0, se1 |-> 0, m2 |-> 0, se2 |-> 0, del |-> 0, se_del |-> 0,
     p |-> 0, t |-> 0, df |-> 0]

\* Nothing has been fitted, read or printed.
AppIdle ==
    /\ pairs = <<>>
    /\ lr = NoLr
    /\ lines = <<>>
    /\ lax_parsing = FALSE
    /\ reader = NoReader
    /\ report = NoReport

Init ==
    /\ input \in Samples
    /\ obj = "none"
    /\ res = "none"
    /\ data = <<>>
    /\ summary = NoSummary
    /\ call = "none"
    /\ arg = 0
    /\ out = NoOut
    /\ NumIdle
    /\ from_unit = "Undefined"
    /\ AppIdle

SummarizerNew ==
    /\ obj = "none"
    /\ obj' = "summarizer"
    /\ res' = NewResult(input)
    /\ data' = NewData(input)
    /\ UNCHANGED <<input, summary, call, arg, out, numvars, appvars>>

SummaryNew ==
    /\ obj = "none"
    /\ obj' = "summary"
    /\ res' = SummaryResult(input)
    /\ summary' = SummaryValue(input)
    /\ UNCHANGED <<input, data, call, arg, out, numvars, appvars>>

\* A query of a live Summarizer (&self): it reads data and returns.
Query(name, a, r) ==
    /\ obj = "summarizer"
    /\ res = "Ok"
    /\ call = "none"
    /\ call' = name
    /\ arg' = a
    /\ out' = r
    /\ UNCHANGED <<input, obj, res, data, summary, numvars, appvars>>

CallSize == Query("size", 0, Ok(size(data)))
CallIqr == Query("iqr", 0, iqr(data))
CallLowerQuartile == Query("lower_quartile", 0, lower_quartile(data))
CallMin == Query("min", 0, min(data))
CallMinAdjacent == Query("min_adjacent", 0, min_adjacent(data))
CallMax == Query("max", 0, max(data))
CallMaxAdjacent == Query("max_adjacent", 0, max_adjacent(data))
CallMean == Query("mean", 0, mean(data))
CallMedian == Query("median", 0, median(data))
CallPercentile == \E p \in PArgs : Query("percentile", p, percentile(data, p))
CallRange == Query("range", 0, range(data))
CallUpperQuartile == Query("upper_quartile", 0, upper_quartile(data))
CallUnbiasedVariance == Query("unbiased_variance", 0, unbiased_variance(data))
CallStandardDeviation == Query("standard_deviation", 0, standard_deviation(data))
CallStandardError == Query("standard_error", 0, standard_error(data))

\* A getter of a Summary (&self): it returns the stored field.
Getter(name, v) ==
    /\ obj = "summary"
    /\ res = "Ok"
    /\ call = "none"
    /\ call' = name
    /\ arg' = 0
    /\ out' = Ok(v)
    /\ UNCHANGED <<input, obj, res, data, summary, numvars, appvars>>

\* Summary::size: `self.len as f64`.
SummarySize == Getter("size", AsF64(summary.len))
\* Summary::range, iqr, ..., standard_error: `self.<field>`.
SummaryGet == \E f \in FieldNames : Getter(f, summary[f])

\* The caller takes the returned value; a panic does not return.
Return ==
    /\ call # "none"
    /\ out.kind # "panic"
    /\ call' = "none"
    /\ arg' = 0
    /\ out' = NoOut
    /\ UNCHANGED <<input, obj, res, data, summary, numvars, appvars>>

Next ==
    \/ SummarizerNew
    \/ SummaryNew
    \/ CallSize
    \/ CallIqr
    \/ CallLowerQuartile
    \/ CallMin
    \/ CallMinAdjacent
    \/ CallMax
    \/ CallMaxAdjacent
    \/ CallMean
    \/ CallMedian
    \/ CallPercentile
    \/ CallRange
    \/ CallUpperQuartile
    \/ CallUnbiasedVariance
    \/ CallStandardDeviation
    \/ CallStandardError
    \/ SummarySize
    \/ SummaryGet
    \/ Return

Spec == Init /\ [][Next]_vars

\* ------------------------------------- calls into t_test.rs and num.rs
\* The pending call c with the arguments it hands to inc_beta.
WithArgs(c, args) == [c EXCEPT !.x = args.x, !.a = args.a, !.b = args.b]

\* The caller enters inc_beta(args.x, args.a, args.b) on behalf of c.
Enter(c, args) ==
    /\ pc = "idle"
    /\ caller' = WithArgs(c, args)
    /\ frames' = <<args>>
    /\ pc' = "inc_beta"
    /\ UNCHANGED <<loop, ret, cause, libm, from_unit, result, prev, sumvars, appvars>>

CallIncBeta ==
    \E x \in XArgs, a \in ABArgs, b \in ABArgs :
        Enter([NoCaller EXCEPT !.fn = "inc_beta", !.x = x, !.a = a, !.b = b],
              [x |-> x, a |-> a, b |-> b])

\* t_test_2_sided(t, df) calls t_atv(t.abs(), df), which calls inc_beta.
CallTTest2Sided ==
    \E t \in TArgs, df \in DfArgs :
        Enter([NoCaller EXCEPT !.fn = "t_test_2_sided", !.t = t, !.df = df],
              t_atv_args(FAbs(t), df))

\* welch_t_test(s1, s2) with (t, df) = st: it calls t_test_2_sided(t, df).
WelchCaller(s1, s2, st) ==
    [NoCaller EXCEPT !.fn = "welch_t_test", !.t = st.t, !.df = st.df,
                     !.s1 = s1, !.s2 = s2]

\* welch_t_test on the Summaries s1 and s2.
WelchTTest(s1, s2) ==
    \E st \in {welch_t_statistic(s1, s2)} :
        Enter(WelchCaller(s1, s2, st), t_atv_args(FAbs(st.t), st.df))

CallWelchTTest ==
    /\ pc = "idle"
    /\ \E s1, s2 \in TSummaries : WelchTTest(s1, s2)

\* After welch_t_test(s1, s2) has returned, the caller calls
\* welch_t_test(s2, s1) and keeps the first result.
CallWelchTTestSwapped ==
    /\ pc = "done"
    /\ caller.fn = "welch_t_test"
    /\ prev.kind = "none"
    /\ result.kind \in {"ok", "err"}
    /\ prev' = result
    /\ result' = NoResult
    /\ \E st \in {welch_t_statistic(caller.s2, caller.s1)} :
           /\ caller' = WithArgs(WelchCaller(caller.s2, caller.s1, st),
                                 t_atv_args(FAbs(st.t), st.df))
           /\ frames' = <<t_atv_args(FAbs(st.t), st.df)>>
    /\ pc' = "inc_beta"
    /\ loop' = NoLoop
    /\ ret' = NoOut
    /\ cause' = "none"
    /\ UNCHANGED <<libm, from_unit, sumvars, appvars>>

\* After t_test_2_sided(t, df) has ended, the call t_test_2_sided(-t, df) is
\* made (by a new process when the first one died); the first outcome is kept.
CallTTest2SidedNegated ==
    /\ pc = "done"
    /\ caller.fn = "t_test_2_sided"
    /\ prev.kind = "none"
    /\ prev' = result
    /\ result' = NoResult
    /\ caller' = WithArgs([caller EXCEPT !.t = FNeg(caller.t)],
                          t_atv_args(FAbs(FNeg(caller.t)), caller.df))
    /\ frames' = <<t_atv_args(FAbs(FNeg(caller.t)), caller.df)>>
    /\ pc' = "inc_beta"
    /\ loop' = NoLoop
    /\ ret' = NoOut
    /\ cause' = "none"
    /\ UNCHANGED <<libm, from_unit, sumvars, appvars>>

\* The running activation of inc_beta, and the stack without it.
Top == frames[Len(frames)]
Popped == SubSeq(frames, 1, Len(frames) - 1)

\* `x < 0.0` or `1.0 < x`
OutOfDomain(x) == FLt(x, 0) \/ FLt(F(1), x)

\* inc_beta: `return Err(())` of the two domain tests.
IncBetaReject ==
    /\ pc = "inc_beta"
    /\ OutOfDomain(Top.x)
    /\ ret' = Err("()")
    /\ cause' = "domain"
    /\ frames' = Popped
    /\ pc' = "ret"
    /\ UNCHANGED <<caller, loop, libm, from_unit, result, prev, sumvars, appvars>>

\* inc_beta: `x < bound`, the call of inc_beta_cf.
IncBetaDirect ==
    /\ pc = "inc_beta"
    /\ ~OutOfDomain(Top.x)
    /\ FLt(Top.x, bound(Top.a, Top.b))
    /\ loop' = [i |-> 1, f |-> INC_BETA_CF_APPX_ZERO, c |-> INC_BETA_CF_APPX_ZERO, d |-> 0,
                num |-> 0]
    /\ pc' = "cf"
    /\ UNCHANGED <<caller, frames, ret, cause, libm, from_unit, result, prev, sumvars, appvars>>

\* inc_beta: the else branch, the call inc_beta(1.0 - x, b, a).
IncBetaSymmetric ==
    /\ pc = "inc_beta"
    /\ ~OutOfDomain(Top.x)
    /\ ~FLt(Top.x, bound(Top.a, Top.b))
    /\ Len(frames) < StackLimit
    /\ frames' = Append(frames, [x |-> Sub(F(1), Top.x), a |-> Top.b, b |-> Top.a])
    /\ UNCHANGED <<caller, pc, loop, ret, cause, libm, from_unit, result, prev, sumvars, appvars>>

\* The same call when the stack is exhausted: the process is killed.
StackOverflow ==
    /\ pc = "inc_beta"
    /\ ~OutOfDomain(Top.x)
    /\ ~FLt(Top.x, bound(Top.a, Top.b))
    /\ Len(frames) = StackLimit
    /\ result' = [NoResult EXCEPT !.kind = "abort"]
    /\ pc' = "done"
    /\ UNCHANGED <<caller, frames, loop, ret, cause, libm, from_unit, prev, sumvars, appvars>>

\* The step of the loop body for the current i, f, c, d.
NextStep == inc_beta_cf_step(Top.x, Top.a, Top.b, loop.i, loop.f, loop.c, loop.d)

\* inc_beta_cf: one iteration that does not meet the tolerance.
CfIterate ==
    /\ pc = "cf"
    /\ loop.i < INC_BETA_MAX_ITER
    /\ \E nx \in {NextStep} :
           /\ ~Converged(nx.del)
           /\ loop' = [i |-> loop.i + 1, f |-> nx.f, c |-> nx.c, d |-> nx.d,
                       num |-> cf_num(loop.i, Top.x, Top.a, Top.b)]
    /\ UNCHANGED <<caller, pc, frames, ret, cause, libm, from_unit, result, prev, sumvars, appvars>>

\* What the math library answers: as before once it has been asked.
LibmAnswers ==
    IF libm.asked THEN {libm}
    ELSE {[pow |-> u, beta |-> v, asked |-> TRUE] : u, v \in LibmVals}

\* inc_beta_cf: the iteration that meets the tolerance, `return Ok(f)`, and
\* inc_beta's `coeff * ...` on the returned value.  (coeff is evaluated before
\* the loop; it has no effect other than its value.)
CfConverged ==
    /\ pc = "cf"
    /\ loop.i < INC_BETA_MAX_ITER
    /\ Converged(NextStep.del)
    /\ \E lm \in LibmAnswers :
           /\ libm' = lm
           /\ ret' = Ok(Mul(coeff(Top.x, Top.a, Top.b, lm), loop.f))
    /\ frames' = Popped
    /\ pc' = "ret"
    /\ UNCHANGED <<caller, loop, cause, from_unit, result, prev, sumvars, appvars>>

\* inc_beta_cf: the range is exhausted, `Err(())`; inc_beta's `?` returns it.
CfExhausted ==
    /\ pc = "cf"
    /\ loop.i = INC_BETA_MAX_ITER
    /\ ret' = Err("()")
    /\ cause' = "diverged"
    /\ frames' = Popped
    /\ pc' = "ret"
    /\ UNCHANGED <<caller, loop, libm, from_unit, result, prev, sumvars, appvars>>

\* inc_beta: `1.0 - inc_beta(1.0 - x, b, a)?` once the inner call is back.
SymmetricReturn ==
    /\ pc = "ret"
    /\ frames # <<>>
    /\ ret' = IF ret.kind = "ok" THEN Ok(Sub(F(1), ret.val)) ELSE ret
    /\ frames' = Popped
    /\ UNCHANGED <<caller, pc, loop, cause, libm, from_unit, result, prev, sumvars, appvars>>

\* A faulty variant: t_test_2_sided returns t_atv's value, 1.0 - ib, as p.
ReceivedWithin(c, r, e) ==
    IF c.fn = "inc_beta" THEN [NoResult EXCEPT !.kind = r.kind, !.val = r.val, !.err = r.err]
    ELSE IF r.kind = "err" THEN [NoResult EXCEPT !.kind = "err", !.err = e]
    ELSE [kind |-> "ok", val |-> Sub(F(1), r.val), t |-> c.t, df |-> c.df, err |-> "none"]

\* What the caller c receives when the outermost inc_beta returns r:
\* inc_beta's own result, or t_atv's `?` and `1.0 - ib` followed by
\* t_test_2_sided's `1.0 - ...` and TTest { df, p, t }.
Received(c, r, e) ==
    IF c.fn = "inc_beta" THEN [NoResult EXCEPT !.kind = r.kind, !.val = r.val, !.err = r.err]
    ELSE IF r.kind = "err" THEN [NoResult EXCEPT !.kind = "err", !.err = e]
    ELSE [kind |-> "ok", val |-> Sub(F(1), Sub(F(1), r.val)),
          t |-> c.t, df |-> c.df, err |-> "none"]

Deliver ==
    /\ pc = "ret"
    /\ frames = <<>>
    /\ result' = Received(caller, ret, from_unit)
    /\ pc' = "done"
    /\ UNCHANGED <<caller, frames, loop, ret, cause, libm, from_unit, prev, sumvars, appvars>>

\* The values print_t_test hands to println!, given m1, m2, se1 and se2 as
\* the code binds them.
Printed(tt, m1, m2, se1, se2) ==
    [printed |-> TRUE, m1 |-> m1, se1 |-> se1, m2 |-> m2, se2 |-> se2,
     del |-> Sub(m2, m1), se_del |-> FSqrt(Add(Sq(se1), Sq(se1))),
     p |-> tt.val, t |-> tt.t, df |-> tt.df]

\* display_t_test after `ok!(welch_t_test(..))` succeeded:
\* print_t_test(&t_test, &summary1, &summary2), where
\* `let se2 = s1.standard_error();`.
PrintTTest ==
    /\ pc = "done"
    /\ caller.fn = "welch_t_test"
    /\ result.kind = "ok"
    /\ report' = Printed(result, caller.s1.mean, caller.s2.mean,
                         caller.s1.standard_error, caller.s1.standard_error)
    /\ pc' = "printed"
    /\ UNCHANGED <<caller, frames, loop, ret, cause, libm, from_unit, result, prev,
                   pairs, lr, lines, lax_parsing, reader, sumvars>>

NumInit ==
    /\ input = <<>>
    /\ obj = "none"
    /\ res = "none"
    /\ data = <<>>
    /\ summary = NoSummary
    /\ call = "none"
    /\ arg = 0
    /\ out = NoOut
    /\ NumIdle
    /\ from_unit \in ErrorKinds
    /\ AppIdle

NumNext ==
    \/ CallIncBeta
    \/ CallTTest2Sided
    \/ CallWelchTTest
    \/ CallWelchTTestSwapped
    \/ CallTTest2SidedNegated
    \/ IncBetaReject
    \/ IncBetaDirect
    \/ IncBetaSymmetric
    \/ StackOverflow
    \/ CfIterate
    \/ CfConverged
    \/ CfExhausted
    \/ SymmetricReturn
    \/ Deliver
    \/ PrintTTest

NumSpec == NumInit /\ [][NumNext]_vars

\* ------------------------------------------------ linear regression (lr.rs)
\* data.iter().cloned().unzip(): the x and the y of each pair, in input order.
UnzipX(d) == [k \in 1..Len(d) |-> d[k][1]]
UnzipY(d) == [k \in 1..Len(d) |-> d[k][2]]

\* A faulty variant: the products pair the sorted x with the sorted y.
CrossDeviationsSorted(x, y, mean_x, mean_y) ==
    [k \in 1..Len(x) |-> FMul(FSub(Sort(x)[k], mean_x), FSub(Sort(y)[k], mean_y))]

\* `(x[i] - mean_x) * (y[i] - mean_y)` for i in 0..x.len().
CrossDeviations(x, y, mean_x, mean_y) ==
    [k \in 1..Len(x) |-> FMul(FSub(x[k], mean_x), FSub(y[k], mean_y))]

\* The LinearRegression simple_lr returns, given r and slope.
LrFields(n, mean_x, mean_y, r, slope) ==
    [kind |-> "Ok",
     intercept |-> Sub(mean_y, Mul(slope, mean_x)),
     r |-> r,
     slope |-> slope,
     standard_error |->
         Mul(Div(slope, FSqrt(Sub(n, F(2)))), FSqrt(Sub(Div(F(1), Sq(r)), F(1))))]

\* `slope = r * (std_y / std_x)` and what follows it.
LrFromR(n, mean_x, mean_y, std_x, std_y, r) ==
    CHOOSE v \in {LrFields(n, mean_x, mean_y, rv, s) :
                      rv \in {r}, s \in {Mul(r, Div(std_y, std_x))}} : TRUE

\* `r = r_num / r_den` with r_den = (n - 1.0) * std_x * std_y.
LrFromMoments(n, mean_x, mean_y, std_x, std_y, r_num) ==
    LrFromR(n, mean_x, mean_y, std_x, std_y,
            Div(r_num, Mul(Mul(Sub(n, F(1)), std_x), std_y)))

\* simple_lr once both Summarizers exist (x and y are finite and non-empty).
LrFit(x, y) ==
    CHOOSE v \in {LrFromMoments(AsF64(Len(x)), mx, my, sx, sy,
                                FSum(CrossDeviations(x, y, mx, my))) :
                      mx \in {mean(Sort(x)).val}, my \in {mean(Sort(y)).val},
                      sx \in {standard_deviation(Sort(x)).val},
                      sy \in {standard_deviation(Sort(y)).val}} : TRUE

LrError(e) == [NoLr EXCEPT !.kind = e]

\* A faulty variant: only the x values go through Summarizer::new's `?`.
simple_lr_x_checked_only(d) ==
    IF NewResult(UnzipX(d)) # "Ok" THEN LrError(NewResult(UnzipX(d)))
    ELSE LrFit(UnzipX(d), UnzipY(d))

\* simple_lr: `Summarizer::new(&x)?`, `Summarizer::new(&y)?`, then the fit.
simple_lr(d) ==
    IF NewResult(UnzipX(d)) # "Ok" THEN LrError(NewResult(UnzipX(d)))
    ELSE IF NewResult(UnzipY(d)) # "Ok" THEN LrError(NewResult(UnzipY(d)))
    ELSE LrFit(UnzipX(d), UnzipY(d))

\* Longest slice of pairs drawn by LrInit.
MaxPairs == 3

\* Pairs a caller may pass: the known-answer points (1,2), (2,4), (3,6), a
\* point off their line, a repeated x, extreme and non-finite values.
PairVals ==
    {<<F(1), F(2)>>, <<F(2), F(4)>>, <<F(3), F(6)>>, <<F(1), F(6)>>, <<F(2), F(2)>>,
     <<NaN, 0>>, <<0, PosInf>>, <<MaxFinite, F(1)>>}

PairSlices == UNION {[1..n -> PairVals] : n \in 0..MaxPairs}

\* LinearRegression::new
LinearRegressionNew ==
    /\ lr.kind = "none"
    /\ lr' = IF Len(pairs) = 0 THEN LrError("EmptySample") ELSE simple_lr(pairs)
    /\ UNCHANGED <<pairs, lines, lax_parsing, reader, report, sumvars, numvars>>

LrFieldNames == {"intercept", "r", "slope", "standard_error"}

\* intercept(), r(), slope(), standard_error(): `self.<field>`.
LrGetter ==
    /\ lr.kind = "Ok"
    /\ call = "none"
    /\ \E f \in LrFieldNames :
           /\ call' = f
           /\ out' = Ok(lr[f])
    /\ UNCHANGED <<input, obj, res, data, summary, arg, numvars, appvars>>

\* The caller takes the value a getter returned.
LrReturn ==
    /\ call # "none"
    /\ call' = "none"
    /\ out' = NoOut
    /\ UNCHANGED <<input, obj, res, data, summary, arg, numvars, appvars>>

LrInit ==
    /\ input = <<>>
    /\ obj = "none"
    /\ res = "none"
    /\ data = <<>>
    /\ summary = NoSummary
    /\ call = "none"
    /\ arg = 0
    /\ out = NoOut
    /\ NumIdle
    /\ from_unit = "Undefined"
    /\ pairs \in PairSlices
    /\ lr = NoLr
    /\ lines = <<>>
    /\ lax_parsing = FALSE
    /\ reader = NoReader
    /\ report = NoReport

LrNext ==
    \/ LinearRegressionNew
    \/ LrGetter
    \/ LrReturn

LrSpec == LrInit /\ [][LrNext]_vars

\* ------------------------------------------------------ read_data (bin.rs)
\* A line is the sequence of its characters (its line ending already removed
\* by lines()); ReadError stands for a line the reader failed to deliver.
ReadError == <<"io::Error">>

Digits == {"1", "2"}
DigitValue(c) == IF c = "1" THEN 1 ELSE 2

RECURSIVE trim_start(_)
trim_start(s) == IF s # <<>> /\ Head(s) = " " THEN trim_start(Tail(s)) ELSE s

RECURSIVE trim_end(_)
trim_end(s) ==
    IF s # <<>> /\ s[Len(s)] = " " THEN trim_end(SubSeq(s, 1, Len(s) - 1)) ELSE s

\* A faulty variant: blanks at the end of the line are kept.
trim_leading_only(s) == trim_start(s)
\* str::trim
trim(s) == trim_end(trim_start(s))

RECURSIVE DecimalOf(_)
\* The integer a string of digits denotes.
DecimalOf(ds) ==
    IF ds = <<>> THEN 0
    ELSE 10 * DecimalOf(SubSeq(ds, 1, Len(ds) - 1)) + DigitValue(ds[Len(ds)])

AllDigits(ds) == ds # <<>> /\ \A k \in 1..Len(ds) : ds[k] \in Digits

\* str::parse::<f64> on the characters used here: an optional minus sign and
\* at least one digit, nothing else; the value is the nearest float.
parse(s) ==
    IF AllDigits(s) THEN Ok(RoundQ(DecimalOf(s) * Scale, 1))
    ELSE IF s # <<>> /\ Head(s) = "-" /\ AllDigits(Tail(s))
         THEN Ok(FNeg(RoundQ(DecimalOf(Tail(s)) * Scale, 1)))
    ELSE Err("ParseFloatError")

\* Most lines of a reader drawn by ReadInit.
MaxLines == 3

\* Lines a reader may hold: empty, blank, numbers with and without blanks
\* around them, and lines that are no number.
LineTexts ==
    {<<>>, <<" ">>, <<"1">>, <<" ", "2">>, <<"-", "1", " ">>, <<"1", "2">>,
     <<"x">>, <<"-">>, <<"1", " ", "2">>, <<" ", "1", "x">>}

Readers == UNION {[1..n -> LineTexts \cup {ReadError}] : n \in 0..MaxLines}

\* The line the loop is about to take, and that line trimmed.
Reading == reader.status = "none" /\ reader.pos < Len(lines)
Line == lines[reader.pos + 1]
Trimmed == trim(Line)

\* read_data returns Err: `data` is dropped.
Failed == [pos |-> reader.pos + 1, data |-> <<>>, status |-> "err"]

\* `l?`: the reader failed on this line.
ReadFails ==
    /\ Reading
    /\ Line = ReadError
    /\ reader' = Failed
    /\ UNCHANGED <<pairs, lr, lines, lax_parsing, report, sumvars, numvars>>

\* `if s.is_empty() { continue; }`
SkipBlank ==
    /\ Reading
    /\ Line # ReadError
    /\ Trimmed = <<>>
    /\ reader' = [reader EXCEPT !.pos = @ + 1]
    /\ UNCHANGED <<pairs, lr, lines, lax_parsing, report, sumvars, numvars>>

\* `Ok(d) => data.push(d)`
PushParsed ==
    /\ Reading
    /\ Line # ReadError
    /\ Trimmed # <<>>
    /\ parse(Trimmed).kind = "ok"
    /\ reader' = [reader EXCEPT !.pos = @ + 1, !.data = Append(@, parse(Trimmed).val)]
    /\ UNCHANGED <<pairs, lr, lines, lax_parsing, report, sumvars, numvars>>

\* `err => if !lax_parsing { err?; }` with lax_parsing set: the line is dropped.
DropUnparsed ==
    /\ Reading
    /\ Line # ReadError
    /\ Trimmed # <<>>
    /\ parse(Trimmed).kind = "err"
    /\ lax_parsing
    /\ reader' = [reader EXCEPT !.pos = @ + 1]
    /\ UNCHANGED <<pairs, lr, lines, lax_parsing, report, sumvars, numvars>>

\* The same arm without lax_parsing: `err?` returns the parse error.
ParseFails ==
    /\ Reading
    /\ Line # ReadError
    /\ Trimmed # <<>>
    /\ parse(Trimmed).kind = "err"
    /\ ~lax_parsing
    /\ reader' = Failed
    /\ UNCHANGED <<pairs, lr, lines, lax_parsing, report, sumvars, numvars>>

\* The lines are exhausted: `Ok(data)`.
ReadDataEnd ==
    /\ reader.status = "none"
    /\ reader.pos = Len(lines)
    /\ reader' = [reader EXCEPT !.status = "ok"]
    /\ UNCHANGED <<pairs, lr, lines, lax_parsing, report, sumvars, numvars>>

ReadInit ==
    /\ input = <<>>
    /\ obj = "none"
    /\ res = "none"
    /\ data = <<>>
    /\ summary = NoSummary
    /\ call = "none"
    /\ arg = 0
    /\ out = NoOut
    /\ NumIdle
    /\ from_unit = "Undefined"
    /\ pairs = <<>>
    /\ lr = NoLr
    /\ lines \in Readers
    /\ lax_parsing \in BOOLEAN
    /\ reader = NoReader
    /\ report = NoReport

ReadNext ==
    \/ ReadFails
    \/ SkipBlank
    \/ PushParsed
    \/ DropUnparsed
    \/ ParseFails
    \/ ReadDataEnd

ReadSpec == ReadInit /\ [][ReadNext]_vars

\* ------------------------------------------------------------ the claims
Constructed == obj = "summarizer" /\ res = "Ok"
Returned(name) == Constructed /\ call = name

\* What the construction contract promises for the input in.
Contract(in) ==
    IF Len(in) = 0 THEN "EmptySample"
    ELSE IF \E k \in 1..Len(in) : in[k] \in {NaN, PosInf, NegInf} THEN "BadSample"
    ELSE "Ok"

\* C1: Summarizer::new and Summary::new return EmptySample for an empty
\* input, BadSample for a non-empty input with a NaN or an infinity, and
\* succeed for every other input.
C1_ConstructionContract == obj # "none" => res = Contract(input)

\* C1, the part that holds: Summarizer::new alone keeps the contract.
C1_SummarizerContract == obj = "summarizer" => res = Contract(input)

Count(s, v) == Cardinality({k \in 1..Len(s) : s[k] = v})
IsAscending(s) == \A k \in 1..(Len(s) - 1) : s[k] <= s[k + 1]
IsSortOf(s, in) ==
    /\ Len(s) = Len(in)
    /\ IsAscending(s)
    /\ \A k \in 1..Len(in) : Count(s, in[k]) = Count(in, in[k])

\* C2: after a successful Summarizer::new and any sequence of queries, data is
\* the ascending sort of the constructor input (same multiset, non-decreasing);
\* no query changes data, and the caller's input is never modified.
C2_SortedImmutable ==
    /\ [](Constructed => IsSortOf(data, input))
    /\ [][input' = input /\ (Constructed => data' = data)]_vars

C2_Witness ==
    /\ Returned("max_adjacent")
    /\ Len(input) >= 3
    /\ input # data
    /\ input[1] > input[2]

InDomain(p) == p \notin {NaN, PosInf, NegInf} /\ 0 <= p /\ p <= Scale

\* C3: percentile(p) returns Undefined for every p below 0, above 1, NaN or
\* infinite, and returns a value (no error, no out-of-bounds index) for every
\* p in [0,1] on every valid sample, a one-element sample included.
C3_PercentileDomain ==
    Returned("percentile") =>
        IF InDomain(arg) THEN out.kind = "ok" ELSE out = Err("Undefined")

C3_Witness ==
    /\ Returned("percentile")
    /\ Len(data) = 1
    /\ arg = Scale
    /\ out.kind = "ok"

\* C4: for every non-empty finite sample, percentile(0.0) equals min() and
\* percentile(1.0) equals max() exactly.
C4_BoundaryPercentiles ==
    /\ (Returned("percentile") /\ arg = 0) =>
           (out.kind = "ok" /\ FEq(out.val, data[1]))
    /\ (Returned("percentile") /\ arg = Scale) =>
           (out.kind = "ok" /\ FEq(out.val, data[Len(data)]))

\* C5: for every valid sample and every p in [0,1], percentile(p) lies
\* between min() and max() inclusive.
C5_PercentileWithinRange ==
    (Returned("percentile") /\ InDomain(arg)) =>
        /\ out.kind = "ok"
        /\ FLe(min(data).val, out.val)
        /\ FLe(out.val, max(data).val)

\* C6: for every valid sample, lower_quartile() <= median() <= upper_quartile().
C6_QuartileOrder ==
    Returned("median") =>
        /\ lower_quartile(data).kind = "ok"
        /\ upper_quartile(data).kind = "ok"
        /\ FLe(lower_quartile(data).val, out.val)
        /\ FLe(out.val, upper_quartile(data).val)

\* The Tukey fences lower_quartile - 1.5 IQR and upper_quartile + 1.5 IQR.
LowerFence(d) == FSub(lower_quartile(d).val, FMul(OneAndHalf, iqr(d).val))
UpperFence(d) == FAdd(upper_quartile(d).val, FMul(OneAndHalf, iqr(d).val))

\* C7: min_adjacent() is the smallest sample element at or above the lower
\* fence, max_adjacent() the largest at or below the upper fence; such an
\* element always exists (no unreachable!() is reached), so
\* min_adjacent() >= min() and max_adjacent() <= max().
C7_AdjacentValues ==
    /\ Returned("min_adjacent") =>
           /\ out.kind = "ok"
           /\ \E k \in 1..Len(data) :
                  /\ data[k] = out.val
                  /\ FLe(LowerFence(data), data[k])
                  /\ \A l \in 1..Len(data) :
                         FLe(LowerFence(data), data[l]) => data[k] <= data[l]
           /\ FLe(min(data).val, out.val)
    /\ Returned("max_adjacent") =>
           /\ out.kind = "ok"
           /\ \E k \in 1..Len(data) :
                  /\ data[k] = out.val
                  /\ FLe(data[k], UpperFence(data))
                  /\ \A l \in 1..Len(data) :
                         FLe(data[l], UpperFence(data)) => data[l] <= data[k]
           /\ FLe(out.val, max(data).val)

\* C8: median() is the average of the two central sorted values for an even
\* size and the central sorted value for an odd size; for every valid sample
\* this equals percentile(0.5).
C8_MedianIsHalfPercentile ==
    Returned("median") =>
        /\ out.kind = "ok"
        /\ (Len(data) % 2 = 1 => out.val = data[(Len(data) + 1) \div 2])
        /\ (Len(data) % 2 = 0 =>
               out.val = FDiv(FAdd(data[Len(data) \div 2],
                                   data[(Len(data) \div 2) + 1]), F(2)))
        /\ FEq(out.val, percentile(data, Half).val)

\* C8, the part that holds: the even/odd rule.
C8_MedianRule ==
    Returned("median") =>
        /\ out.kind = "ok"
        /\ (Len(data) % 2 = 1 => out.val = data[(Len(data) + 1) \div 2])
        /\ (Len(data) % 2 = 0 =>
               out.val = FDiv(FAdd(data[Len(data) \div 2],
                                   data[(Len(data) \div 2) + 1]), F(2)))

\* The sum of squared deviations of d from its mean.
SumSqDev(d) == FSum([k \in 1..Len(d) |-> Square(FSub(d[k], FDiv(FSum(d), AsF64(Len(d)))))])

TwoAndHalf == 5 * Half

\* The known answers for the sample [1, 2, 3, 4, 5].
Scenario ==
    (Constructed /\ input = KnownSample) =>
        /\ call = "size" => out = Ok(F(5))
        /\ call = "min" => out = Ok(F(1))
        /\ call = "max" => out = Ok(F(5))
        /\ call = "median" => out = Ok(F(3))
        /\ call = "mean" => out = Ok(F(3))
        /\ call = "lower_quartile" => out = Ok(F(2))
        /\ call = "upper_quartile" => out = Ok(F(4))
        /\ call = "unbiased_variance" => out = Ok(TwoAndHalf)

MeanIsSumOverN ==
    (Returned("mean") /\ Len(data) >= 2) =>
        out = Ok(FDiv(FSum(data), AsF64(Len(data))))

\* C9: for every sample of size n >= 2, mean() is the sum of the values
\* divided by n and unbiased_variance() is the sum of squared deviations from
\* that mean divided by (n-1); [1,2,3,4,5] gives size=5, min=1, max=5,
\* median=3, mean=3, lower_quartile=2, upper_quartile=4, unbiased_variance=2.5.
C9_MeanAndVariance ==
    /\ MeanIsSumOverN
    /\ (Returned("unbiased_variance") /\ Len(data) >= 2) =>
           out = Ok(FDiv(SumSqDev(data), AsF64(Len(data) - 1)))
    /\ Scenario

IsPowerOfTwo(n) == \E k \in 0..n : n = 2^k

\* C9 as amended: the variance is the sum of squared deviations multiplied by
\* the rounded reciprocal 1.0/(n-1); that is the quotient by (n-1) whenever
\* n-1 is a power of two (as for [1,2,3,4,5]); the mean and the known answers
\* are as claimed.
C9_MeanAndVarianceByReciprocal ==
    /\ MeanIsSumOverN
    /\ (Returned("unbiased_variance") /\ Len(data) >= 2) =>
           /\ out = Ok(FMul(FDiv(F(1), AsF64(Len(data) - 1)), SumSqDev(data)))
           /\ IsPowerOfTwo(Len(data) - 1) =>
                  out = Ok(FDiv(SumSqDev(data), AsF64(Len(data) - 1)))
    /\ Scenario

C9_Witness ==
    /\ Returned("unbiased_variance")
    /\ Len(data) = 4
    /\ is_finite(out.val)
    /\ out.val # FDiv(SumSqDev(data), F(3))

\* C10: constructing a Summarizer or a Summary from a one-element sample
\* succeeds, and unbiased_variance, standard_deviation and standard_error come
\* back as non-finite numbers; no error is returned and nothing panics.
C10_SingleElement ==
    (Len(input) = 1 /\ is_finite(input[1])) =>
        /\ obj # "none" => res = "Ok"
        /\ obj = "summary" =>
               /\ ~is_finite(summary.unbiased_variance)
               /\ ~is_finite(summary.standard_deviation)
               /\ ~is_finite(summary.standard_error)
        /\ call \in {"unbiased_variance", "standard_deviation", "standard_error"} =>
               (out.kind = "ok" /\ ~is_finite(out.val))

C10_Witness ==
    /\ obj = "summary"
    /\ res = "Ok"
    /\ summary.len = 1
    /\ summary.min = MaxFinite
    /\ summary.unbiased_variance = NaN
    /\ summary.standard_error = NaN

\* C11: for a sample made of one value v repeated n times (n >= 1), mean,
\* median, min and max all return v and standard_deviation returns 0.
C11_ConstantSample ==
    (Constructed /\ \A k \in 1..Len(data) : data[k] = data[1]) =>
        /\ call \in {"mean", "median", "min", "max"} => out = Ok(data[1])
        /\ call = "standard_deviation" => out = Ok(0)

\* The part of C11 that holds: min and max of a constant sample return v.
C11_ConstantExtremes ==
    (Constructed /\ \A k \in 1..Len(data) : data[k] = data[1]) =>
        (call \in {"min", "max"} => out = Ok(data[1]))

\* The sequence s with the values at positions i and j exchanged.
Exchange(s, i, j) ==
    [k \in 1..Len(s) |-> IF k = i THEN s[j] ELSE IF k = j THEN s[i] ELSE s[k]]

SummarizerQuery(name, d) ==
    IF name = "size" THEN Ok(size(d)) ELSE SummaryFields(d)[name]

\* C13: Summary::new(data) fails exactly when Summarizer::new(data) fails,
\* with the same error; when it succeeds, every getter of the Summary
\* returns, on every call, what the Summarizer query of the same name
\* returns for that data.
C13_SummaryMirrorsSummarizer ==
    obj = "summary" =>
        /\ res = NewResult(input)
        /\ call # "none" => out = SummarizerQuery(call, NewData(input))

\* The part of C13 that holds: the errors agree, and after a successful
\* construction every getter agrees with the Summarizer's query.
C13_MirrorsWhenBuilt ==
    obj = "summary" =>
        /\ res \in {"EmptySample", "BadSample"} <=> NewResult(input) # "Ok"
        /\ res \in {"EmptySample", "BadSample"} => res = NewResult(input)
        /\ call # "none" => out = SummarizerQuery(call, NewData(input))

\* A direct call inc_beta(x, a, b) has ended (returned, or the process died).
IncBetaEnded == caller.fn = "inc_beta" /\ pc = "done"
InUnitInterval(x) == FLe(0, x) /\ FLe(x, F(1))

\* C14: inc_beta(x, a, b) fails with the Undefined error whenever x lies
\* outside [0, 1], and it also fails (it neither returns a value nor runs on
\* without end) whenever a or b is not finite.
C14_IncBetaDomain ==
    IncBetaEnded =>
        /\ ~InUnitInterval(caller.x) =>
               (result.kind = "err" /\ result.err \in {"()", "Undefined"})
        /\ (~is_finite(caller.a) \/ ~is_finite(caller.b)) => result.kind = "err"

\* The part of C14 that holds: an x below 0 or above 1 is rejected with
\* inc_beta's only error, whatever a and b are.
C14_OutOfRangeRejected ==
    (IncBetaEnded /\ OutOfDomain(caller.x)) => result = [NoResult EXCEPT !.kind = "err", !.err = "()"]

\* C15: inc_beta(0.5, 1.0, 1.0) returns 0.5.
C15_IncBetaOfHalf ==
    (IncBetaEnded /\ caller.x = Half /\ caller.a = F(1) /\ caller.b = F(1)) =>
        (result.kind = "ok" /\ result.val = Half)

\* C16: for every x in [0, 1] and every a and b, a call of inc_beta makes at
\* most one recursive call: the call with swapped arguments takes the direct
\* branch (also when x equals bound), so the stack never holds more than two
\* activations and the call ends by returning.
C16_OneRecursiveCall ==
    (caller.fn = "inc_beta" /\ InUnitInterval(caller.x)) =>
        /\ Len(frames) <= 2
        /\ (pc = "inc_beta" /\ Len(frames) = 2) => FLt(Top.x, bound(Top.a, Top.b))
        /\ result.kind # "abort"

\* C17: inc_beta_cf evaluates up to INC_BETA_MAX_ITER (1000) iterations,
\* i = 1..1000, and fails exactly when none of those 1000 meets the
\* tolerance; it never starts an iteration beyond the cap.
C17_IterationBudget ==
    /\ pc = "cf" => loop.i \in 1..(INC_BETA_MAX_ITER + 1)
    /\ cause = "diverged" => loop.i - 1 = INC_BETA_MAX_ITER

\* The part of C17 that holds: the loop never goes past its range, and it
\* fails exactly when the 999 iterations i = 1..999 have all missed the
\* tolerance.
C17_LoopCap ==
    /\ pc = "cf" => loop.i \in 1..INC_BETA_MAX_ITER
    /\ cause = "diverged" => loop.i = INC_BETA_MAX_ITER
    /\ [][(pc = "cf" /\ pc' = "ret" /\ loop.i < INC_BETA_MAX_ITER) => ret'.kind = "ok"]_vars

\* Both welch_t_test(s1, s2) and then welch_t_test(s2, s1) have returned.
BothOrdersDone == pc = "done" /\ caller.fn = "welch_t_test" /\ prev.kind # "none"

\* C18: for every pair of summaries on which welch_t_test returns a result,
\* the call with the two summaries swapped returns the negated t and the
\* same |t|, df and p.
C18_WelchSymmetry ==
    (BothOrdersDone /\ (prev.kind = "ok" \/ result.kind = "ok")) =>
        /\ prev.kind = "ok" /\ result.kind = "ok"
        /\ result.t = FNeg(prev.t)
        /\ FAbs(result.t) = FAbs(prev.t)
        /\ result.df = prev.df
        /\ result.val = prev.val

C18_Witness ==
    /\ BothOrdersDone
    /\ prev.kind = "ok"
    /\ result.kind = "ok"
    /\ caller.s1.len # caller.s2.len
    /\ is_finite(prev.t)
    /\ FLt(0, prev.t)
    /\ FLt(result.t, 0)
    /\ is_finite(result.val)

\* C19: welch_t_test on two summaries of the same sample returns t = 0 and
\* p = 1, for every valid sample.
C19_IdenticalSamples ==
    (pc = "done" /\ caller.fn = "welch_t_test" /\ caller.s1 = caller.s2) =>
        (result.kind = "ok" /\ result.t = 0 /\ result.val = F(1))

\* The part of C19 that holds: it is so whenever the sample gives a finite
\* positive df, as long as beta(a, b) is computed as a positive number.
C19_IdenticalSpreadSamples ==
    (/\ pc = "done"
     /\ caller.fn = "welch_t_test"
     /\ caller.s1 = caller.s2
     /\ FLt(0, caller.df)
     /\ is_finite(caller.df)) =>
        \/ result.kind = "ok" /\ result.t = 0 /\ result.val = F(1)
        \/ libm.asked /\ libm.beta = 0

\* C20: a failure of inc_beta reaches the caller of t_test_2_sided or
\* welch_t_test with its kind unchanged: Diverged when the continued fraction
\* did not converge, Undefined when x was outside the domain.
C20_ErrorKindPreserved ==
    (pc = "done" /\ caller.fn \in {"t_test_2_sided", "welch_t_test"}) =>
        /\ cause = "diverged" => (result.kind = "err" /\ result.err = "Diverged")
        /\ cause = "domain" => (result.kind = "err" /\ result.err = "Undefined")

\* The part of C20 that holds: a failure of inc_beta does reach the caller as
\* an error, and no error arises anywhere else.
C20_ErrorReachesCaller ==
    (pc = "done" /\ caller.fn \in {"t_test_2_sided", "welch_t_test"}) =>
        (cause # "none" <=> result.kind = "err")

\* A welch_t_test call in which one of the two summaries has size 1.
SizeOneCall == caller.fn = "welch_t_test" /\ (caller.s1.len = 1 \/ caller.s2.len = 1)

\* C21: when either input summary has size 1, welch_t_test does not trap the
\* undefined degrees of freedom: the call completes (it neither runs on
\* without end, nor exhausts the stack, nor panics) and returns an outcome
\* that carries the non-finite df.
C21_SizeOneCompletes ==
    SizeOneCall =>
        /\ Len(frames) <= 2
        /\ result.kind # "abort"
        /\ pc = "done" => (result.kind = "ok" /\ ~is_finite(result.df))

\* The part of C21 that holds: the df of such a call is not trapped; it is
\* the NaN that welch_satterthwaite_df computes, and it is handed on to t_atv.
C21_SizeOneDfIsNaN == SizeOneCall => caller.df = NaN

\* The Summarizer's mean and standard deviation of the x and of the y values.
MeanX(d) == mean(Sort(UnzipX(d))).val
MeanY(d) == mean(Sort(UnzipY(d))).val
StdX(d) == standard_deviation(Sort(UnzipX(d))).val
StdY(d) == standard_deviation(Sort(UnzipY(d))).val

\* The sum over the pairs, in input order, of (xi - mean_x)(yi - mean_y).
SumOfProducts(d) ==
    FSum([k \in 1..Len(d) |-> FMul(FSub(d[k][1], MeanX(d)), FSub(d[k][2], MeanY(d)))])

\* The known-answer input x = [1, 2, 3], y = [2, 4, 6].
KnownPairs == <<<<F(1), F(2)>>, <<F(2), F(4)>>, <<F(3), F(6)>>>>

\* C22: LinearRegression::new computes r as the sum of (xi - mean_x)(yi - mean_y)
\* over ((n-1) std_x std_y), slope = r (std_y / std_x) and
\* intercept = mean_y - slope mean_x, pairing each x with its own y in input
\* order; for x = [1,2,3], y = [2,4,6] it gives slope 2, intercept 0, r 1.
C22_PearsonFit ==
    lr.kind = "Ok" =>
        /\ lr.r = FDiv(SumOfProducts(pairs),
                       FMul(FMul(AsF64(Len(pairs) - 1), StdX(pairs)), StdY(pairs)))
        /\ lr.slope = FMul(lr.r, FDiv(StdY(pairs), StdX(pairs)))
        /\ lr.intercept = FSub(MeanY(pairs), FMul(lr.slope, MeanX(pairs)))
        /\ pairs = KnownPairs => (lr.slope = F(2) /\ lr.intercept = 0 /\ lr.r = F(1))

C22_Witness ==
    /\ lr.kind = "Ok"
    /\ Len(pairs) = 3
    /\ UnzipX(pairs) # Sort(UnzipX(pairs))
    /\ UnzipY(pairs) # Sort(UnzipY(pairs))
    /\ is_finite(lr.r)
    /\ lr.r # 0
    /\ is_finite(lr.intercept)

\* What LinearRegression::new is to return for the pairs d.
LrContract(d) ==
    IF Len(d) = 0 THEN "EmptySample"
    ELSE IF \E k \in 1..Len(d) : ~is_finite(d[k][1]) \/ ~is_finite(d[k][2]) THEN "BadSample"
    ELSE "Ok"

\* C23: LinearRegression::new has exactly two error outcomes, EmptySample for
\* an empty input and BadSample when any x or any y is not finite; for every
\* other input, n <= 2 and all-equal x values included, it returns Ok, with
\* possibly non-finite fields.
C23_RegressionErrors == lr.kind # "none" => lr.kind = LrContract(pairs)

C23_Witness ==
    /\ lr.kind = "Ok"
    /\ Len(pairs) = 2
    /\ pairs[1][1] = pairs[2][1]
    /\ pairs[1][2] # pairs[2][2]
    /\ ~is_finite(lr.slope)
    /\ ~is_finite(lr.standard_error)

\* The lines that hold a number, each with the value it denotes, written out
\* one by one.
NumberLines ==
    {<<<<"1">>, F(1)>>, <<<<" ", "2">>, F(2)>>, <<<<"-", "1", " ">>, 0 - F(1)>>,
     <<<<"1", "2">>, RoundQ(12 * Scale, 1)>>}

IsBlank(l) == \A k \in 1..Len(l) : l[k] = " "
IsNumber(l) == \E nl \in NumberLines : nl[1] = l
ValueOf(l) == (CHOOSE nl \in NumberLines : nl[1] = l)[2]
Unparseable(l) == ~IsBlank(l) /\ ~IsNumber(l)

RECURSIVE NumbersIn(_)
\* The values of the number lines of ls, in their order.
NumbersIn(ls) ==
    IF ls = <<>> THEN <<>>
    ELSE IF IsNumber(Head(ls)) THEN <<ValueOf(Head(ls))>> \o NumbersIn(Tail(ls))
    ELSE NumbersIn(Tail(ls))

\* Every line up to the n-th was delivered by the reader.
Delivered(n) == \A k \in 1..n : lines[k] # ReadError

\* C24: read_data takes the lines in order; blank lines are skipped in both
\* modes; in lax mode every unparseable line is dropped and the result is
\* exactly the values of the parseable lines in their order; in strict mode
\* the read fails at the first unparseable non-blank line and returns no data.
\* (A line the reader cannot deliver is no line of either kind: the read
\* fails there in both modes.)
C24_ReadData ==
    /\ reader.status = "none" =>
           reader.data = NumbersIn(SubSeq(lines, 1, reader.pos))
    /\ (reader.status = "ok" /\ lax_parsing) =>
           (reader.pos = Len(lines) /\ reader.data = NumbersIn(lines))
    /\ (reader.status = "ok" /\ ~lax_parsing) =>
           /\ \A k \in 1..Len(lines) : ~Unparseable(lines[k])
           /\ reader.data = NumbersIn(lines)
    /\ reader.status = "err" =>
           /\ reader.data = <<>>
           /\ Delivered(reader.pos - 1)
           /\ lines[reader.pos] = ReadError \/ (~lax_parsing /\ Unparseable(lines[reader.pos]))
           /\ lax_parsing \/ \A k \in 1..(reader.pos - 1) : ~Unparseable(lines[k])
    /\ (Delivered(Len(lines)) /\ reader.status # "none") =>
           (reader.status = "err" <=>
                (~lax_parsing /\ \E k \in 1..Len(lines) : Unparseable(lines[k])))

C24_Witness ==
    /\ lax_parsing
    /\ reader.status = "ok"
    /\ lines = <<<<" ", "2">>, <<" ", "1", "x">>, <<"-", "1", " ">>>>
    /\ reader.data = <<F(2), 0 - F(1)>>

\* The claimed value of percentile for the given rank and its floor i.
RankValue(d, rank, i) ==
    IF i + 1 = Len(d) THEN Ok(d[i + 1])
    ELSE Ok(FAdd(d[i + 1], FMul(rank - i * Scale, FSub(d[i + 2], d[i + 1]))))

\* C25: for p in [0,1] and a sample of size n, percentile(p) computes
\* rank = (n-1) p, i = floor(rank), frac = rank - i, returns the i-th sorted
\* value when i+1 = n and sorted[i] + frac (sorted[i+1] - sorted[i])
\* otherwise; the indices i and i+1 it reads are within 0..n-1.
C25_PercentileRule ==
    (Returned("percentile") /\ InDomain(arg)) =>
        \E rank \in {FMul(FSub(AsF64(Len(data)), F(1)), arg)} :
            \E i \in {rank \div Scale} :
                /\ is_finite(rank)
                /\ i \in 0..(Len(data) - 1)
                /\ i + 1 # Len(data) => i + 1 \in 0..(Len(data) - 1)
                /\ out = RankValue(data, rank, i)

C25_Witness ==
    /\ Returned("percentile")
    /\ Len(data) = 4
    /\ arg = Half
    /\ out.kind = "ok"
    /\ data[2] < out.val
    /\ out.val < data[3]

\* inc_beta_cf has evaluated iteration i without meeting the tolerance and
\* is about to start the next one.
IterationTaken(i) == pc = "cf" /\ loop.i = i + 1

\* The term of index k of the piecewise sequence, for the running activation.
TermOfIndex(k) ==
    IF k % 2 = 0 THEN cf_d_even(AsF64(k \div 2), Top.x, Top.a, Top.b)
    ELSE cf_d_odd(AsF64((k - 1) \div 2), Top.x, Top.a, Top.b)

\* C26: in the continued-fraction loop the numerator of iteration 1 is 1,
\* and that of each iteration i >= 2 is the i-th term of the piecewise
\* sequence: the even-index formula with m = i/2 when i is even, the
\* odd-index formula with m = (i-1)/2 when i is odd.
C26_NumeratorOwnIndex ==
    /\ IterationTaken(1) => loop.num = F(1)
    /\ (pc = "cf" /\ loop.i > 2) => loop.num = TermOfIndex(loop.i - 1)

\* C26 as amended: the numerators are the sequence (1, d_1, d_2, ...), so
\* the numerator of iteration 1 is 1 and that of iteration i >= 2 is the term
\* of index i-1: the odd-index formula with m = (i-2)/2 when i is even, the
\* even-index formula with m = (i-1)/2 when i is odd.
C26_NumeratorPrecedingIndex ==
    /\ IterationTaken(1) => loop.num = F(1)
    /\ (pc = "cf" /\ loop.i > 2) =>
           /\ (loop.i - 1) % 2 = 0 =>
                  loop.num = cf_d_odd(AsF64((loop.i - 3) \div 2), Top.x, Top.a, Top.b)
           /\ (loop.i - 1) % 2 = 1 =>
                  loop.num = cf_d_even(AsF64((loop.i - 2) \div 2), Top.x, Top.a, Top.b)

C26_Witness ==
    /\ IterationTaken(3)
    /\ is_finite(loop.num)
    /\ loop.num # 0
    /\ loop.num = cf_d_even(F(1), Top.x, Top.a, Top.b)
    /\ loop.num # cf_d_odd(F(1), Top.x, Top.a, Top.b)

\* C27: when the continued-fraction loop stops at an iteration whose c d
\* meets the tolerance, the value it returns is f after f has been multiplied
\* by that iteration's c d; inc_beta then returns coeff times that value.
C27_ReturnsUpdatedF ==
    [][(pc = "cf" /\ pc' = "ret" /\ ret'.kind = "ok") =>
           ret'.val = Mul(coeff(Top.x, Top.a, Top.b, libm'), NextStep.f)]_vars

\* What the code does: the value returned is f as it stood before the
\* converging iteration, without that iteration's factor c d.
C27_ReturnsPreviousF ==
    [][(pc = "cf" /\ pc' = "ret" /\ ret'.kind = "ok") =>
           /\ Converged(NextStep.del)
           /\ ret'.val = Mul(coeff(Top.x, Top.a, Top.b, libm'), loop.f)]_vars

\* A call of t_test_2_sided has ended, and so has the one with -t after it.
TTestEnded == pc = "done" /\ caller.fn = "t_test_2_sided"
BothSignsDone == TTestEnded /\ prev.kind # "none"

\* C28: t_test_2_sided(t, df) returns the given t and df unchanged and
\* p = 1 - (1 - inc_beta(x, a, b)) with x = df/(df + t^2), a = df/2, b = 1/2,
\* computed from |t|; hence t_test_2_sided(t, df) and t_test_2_sided(-t, df)
\* have the same p and the same outcome (the same success or failure).
C28_TwoSidedP ==
    /\ caller.fn = "t_test_2_sided" =>
           /\ caller.x = FDiv(caller.df, FAdd(caller.df, FMul(caller.t, caller.t)))
           /\ caller.a = FDiv(caller.df, F(2))
           /\ caller.b = Half
    /\ TTestEnded =>
           /\ result.kind = "ok" <=> ret.kind = "ok"
           /\ result.kind = "err" <=> ret.kind = "err"
           /\ result.kind = "ok" =>
                  /\ result.t = caller.t
                  /\ result.df = caller.df
                  /\ result.val = FSub(F(1), FSub(F(1), ret.val))
    /\ BothSignsDone =>
           /\ result.kind = prev.kind
           /\ result.val = prev.val
           /\ result.err = prev.err
           /\ result.df = prev.df
           /\ result.t = FNeg(prev.t)

C28_Witness ==
    /\ BothSignsDone
    /\ result.kind = "ok"
    /\ prev.kind = "ok"
    /\ FLt(result.t, 0)
    /\ is_finite(result.val)
    /\ result.val = prev.val
    /\ result.val # FSub(F(1), ret.val)

\* A Summary built from a valid sample.
ValidSummary == obj = "summary" /\ Contract(input) = "Ok"

\* C29: for every valid sample the box-plot values are ordered
\* min <= min_adjacent <= lower_quartile <= upper_quartile <= max_adjacent
\* <= max (each whisker end lies on or outside the box), with iqr >= 0 and
\* range >= 0.
C29_BoxPlotOrder ==
    ValidSummary =>
        /\ res = "Ok"
        /\ FLe(summary.min, summary.min_adjacent)
        /\ FLe(summary.min_adjacent, summary.lower_quartile)
        /\ FLe(summary.lower_quartile, summary.upper_quartile)
        /\ FLe(summary.upper_quartile, summary.max_adjacent)
        /\ FLe(summary.max_adjacent, summary.max)
        /\ FLe(0, summary.iqr)
        /\ FLe(0, summary.range)

\* The part of C29 that holds: whenever the Summary is built, the whisker
\* ends are sample values within [min, max], and the range is not negative.
C29_WhiskersWithinRange ==
    (ValidSummary /\ res = "Ok") =>
        /\ FLe(summary.min, summary.min_adjacent)
        /\ FLe(summary.max_adjacent, summary.max)
        /\ FLe(0, summary.range)

\* C30: in the report print_t_test prints, the line of the second sample
\* shows the mean and the standard error of the second summary, and the
\* standard error shown for the difference m2 - m1 is sqrt(se1^2 + se2^2),
\* built from both summaries' standard errors.
C30_ReportOfSecondSample ==
    report.printed =>
        /\ report.m2 = caller.s2.mean
        /\ report.se2 = caller.s2.standard_error
        /\ report.se_del = FSqrt(FAdd(Square(caller.s1.standard_error),
                                      Square(caller.s2.standard_error)))

\* The part of C30 that holds: the first sample's line, both means and their
\* difference are those of the summaries, and p, t and DF those of the test.
C30_ReportOfFirstSample ==
    report.printed =>
        /\ report.m1 = caller.s1.mean
        /\ report.se1 = caller.s1.standard_error
        /\ report.m2 = caller.s2.mean
        /\ report.del = FSub(caller.s2.mean, caller.s1.mean)
        /\ report.p = result.val /\ report.t = result.t /\ report.df = result.df

====
